---- MODULE Spec2Model ----
(***************************************************************************)
(* Model of backend/src/lambda_function.py: the Lambda handler that        *)
(* validates an image-editing request, builds the Titan request, calls     *)
(* Bedrock and writes an audit record.                                     *)
(*                                                                         *)
(* Text is a sequence of chunks.  A value that the code inspects character *)
(* by character (mask, base_image, model) is a sequence of one-character   *)
(* chunks; the literal parts of an f-string are single chunks.             *)
(***************************************************************************)
EXTENDS Integers, Sequences, FiniteSets, TLC

VARIABLES
  pc,            \* position of the running invocation in lambda_handler
  event,         \* the event argument
  request_id,    \* line 37
  start_time,    \* line 38
  now,           \* the clock read by time.time(), in milliseconds
  body,          \* line 56/58
  loc,           \* the locals assigned by lines 95..144 and 170..171
  bedrock_start_time, \* line 196
  response_bedrock,   \* line 199
  raised,        \* the exception travelling to the except clause of line 241
  response,      \* the value returned by the handler
  audit,         \* the calls of log_to_dynamodb, in order
  stages,        \* history: the gates and calls the invocation has run
  builderCalls,  \* history: the arguments of each prepare_titan_request call
  invokeCalls,   \* history: the arguments of each bedrock.invoke_model call
  past,          \* the invocations that have finished before the running one
  field,         \* a value of mask or base_image handed to the normalization
  normalized     \* what the successive normalizations of field gave

vars == <<pc, event, request_id, start_time, now, body, loc,
          bedrock_start_time, response_bedrock, raised, response, audit,
          stages, builderCalls, invokeCalls, past, field, normalized>>

----------------------------------------------------------------------------
(* Bounds *)

\* the longest time, in milliseconds, one remote call may take
MaxDelay == 1

----------------------------------------------------------------------------
(* Text *)

\* str.lower() on one character
LowerChar(c) ==
  CASE c = "T" -> "t"
    [] c = "I" -> "i"
    [] c = "A" -> "a"
    [] c = "N" -> "n"
    [] c = "D" -> "d"
    [] c = "L" -> "l"
    [] c = "E" -> "e"
    [] OTHER -> c

\* str.lower()
Lower(s) == [i \in 1..Len(s) |-> LowerChar(s[i])]

\* Python's  sub in s  for two strings
IsSubstr(sub, s) ==
  \E i \in 0..(Len(s) - Len(sub)) :
    \A j \in 1..Len(sub) : s[i + j] = sub[j]

\* the position of the first comma of s at or after position i, or 0
RECURSIVE FindComma(_, _)
FindComma(s, i) ==
  IF i > Len(s) THEN 0
  ELSE IF s[i] = "," THEN i
  ELSE FindComma(s, i + 1)

\* SplitSecond that keeps everything after the first comma
SplitSecondMut(s) == SubSeq(s, FindComma(s, 1) + 1, Len(s))

\* s.split(",")[1]  for a string s that holds a comma: the text between the
\* first comma and the second one (or the end of s)
SplitSecond(s) ==
  LET c1 == FindComma(s, 1)
      c2 == FindComma(s, c1 + 1)
  IN  IF c2 = 0 THEN SubSeq(s, c1 + 1, Len(s))
      ELSE SubSeq(s, c1 + 1, c2 - 1)

\* x.split(",")[1] if "," in x else x     (lines 105 and 114)
StripDataUri(s) == IF FindComma(s, 1) # 0 THEN SplitSecond(s) ELSE s

----------------------------------------------------------------------------
(* JSON values: t is the Python type, s the text of a str, f the items of a *)
(* dict.                                                                    *)

JStr(s)  == [t |-> "str",  s |-> s,    f |-> <<>>]
JDict(f) == [t |-> "dict", s |-> <<>>, f |-> f]
\* a number (any scalar that is neither str nor container)
JNum     == [t |-> "int",  s |-> <<>>, f |-> <<>>]
\* a list without items
JList    == [t |-> "list", s |-> <<>>, f |-> <<>>]
\* stands for "the key is not in the dict" while a dict is put together
Absent   == [t |-> "absent", s |-> <<>>, f |-> <<>>]

\* the dict that holds the keys of all whose value is not Absent
MkDict(all) ==
  JDict([k \in {k \in DOMAIN all : all[k].t # "absent"} |-> all[k]])

HasKey(d, k) == k \in DOMAIN d.f

----------------------------------------------------------------------------
(* The requests the model sends *)

S_titan == <<"t", "i", "t", "a", "n">>
S_TITAN == <<"T", "I", "T", "A", "N">>
S_dalle == <<"d", "a", "l", "l", "e">>
S_DALLE == <<"D", "A", "L", "L", "E">>

\* raw base64, a data URI, a data URI without data, a value with two commas,
\* the empty string
RawB64     == <<"A", "A", "A", "A">>
PaddedB64  == <<"A", "A", "=", "=">>
DataUri    == <<"p", ",", "A", "A", "=", "=">>
EmptyUri   == <<"p", ",">>
TwoCommas  == <<"p", ",", "A", "A", "A", "A", ",", "A", "A", "=", "=">>

TextCat    == JStr(<<"a cat">>)
TextEmpty  == JStr(<<>>)
ModeInpaint == JStr(<<"INPAINTING">>)

PromptOpts ==
  { Absent, JNum,
    MkDict([text |-> TextCat,   mode |-> ModeInpaint]),
    MkDict([text |-> TextEmpty, mode |-> ModeInpaint]),
    MkDict([text |-> Absent,    mode |-> ModeInpaint]),
    MkDict([text |-> TextCat,   mode |-> Absent]) }

MaskOpts ==
  { Absent, JNum, JStr(RawB64), JStr(DataUri), JStr(EmptyUri),
    JStr(TwoCommas), JStr(<<>>) }

ImageOpts ==
  { Absent, JNum, JStr(RawB64), JStr(DataUri), JStr(TwoCommas), JStr(<<>>) }

ModelOpts ==
  { Absent, JNum, JStr(S_titan), JStr(S_TITAN), JStr(S_dalle), JStr(S_DALLE) }

CanvasOpts == { Absent, MkDict([width |-> JNum]) }

\* the JSON values a request body can be
Bodies ==
  { JList } \cup
  { MkDict([prompt |-> p, mask |-> m, base_image |-> b, model |-> mo,
            canvas_config |-> c]) :
      p \in PromptOpts, m \in MaskOpts, b \in ImageOpts, mo \in ModelOpts,
      c \in CanvasOpts }

\* event["body"]: a dict (direct invocation), a str (API Gateway) that is
\* the JSON text of value or is not JSON at all, or something else
BodyArgs ==
  { [t |-> "dict", wellFormed |-> TRUE, value |-> v] :
      v \in {b \in Bodies : b.t = "dict"} } \cup
  { [t |-> "str", wellFormed |-> TRUE, value |-> v] : v \in Bodies } \cup
  { [t |-> "str", wellFormed |-> FALSE, value |-> JList],
    [t |-> "int", wellFormed |-> FALSE, value |-> JNum] }

NoBodyArg == [t |-> "absent", wellFormed |-> FALSE, value |-> Absent]

\* the events: a mapping with a body, a mapping without one, not a mapping
Events ==
  { [t |-> "dict", keys |-> {"body"}, body |-> b] : b \in BodyArgs } \cup
  { [t |-> "dict", keys |-> {"headers"}, body |-> NoBodyArg],
    [t |-> "list", keys |-> {}, body |-> NoBodyArg] }

NoEvent == [t |-> "none", keys |-> {}, body |-> NoBodyArg]

----------------------------------------------------------------------------
(* utils.py and titan_handler.py, which the handler imports *)

\* get_cors_headers()
get_cors_headers ==
  [origin |-> "*", headers |-> "Content-Type", methods |-> "OPTIONS,POST"]

\* the number of "=" characters of s
RECURSIVE CountPad(_)
CountPad(s) ==
  IF s = <<>> THEN 0
  ELSE (IF Head(s) = "=" THEN 1 ELSE 0) + CountPad(Tail(s))

\* calculate_base64_size(s): the decoded length that the text implies
calculate_base64_size(s) ==
  LET n == (3 * Len(s)) \div 4 - CountPad(s)
  IN  IF n < 0 THEN 0 ELSE n

\* calculate_output_images_size(images): images is a JSON value, the list
\* of images in its f, or None
RECURSIVE SumSizes(_)
SumSizes(imgs) ==
  IF imgs = <<>> THEN 0
  ELSE calculate_base64_size(Head(imgs)) + SumSizes(Tail(imgs))

calculate_output_images_size(images) ==
  IF images.t = "list" THEN SumSizes(images.f) ELSE 0

\* prepare_titan_request(prompt, mode, mask, image), when it succeeds
prepare_titan_request(prompt_content, painting_mode, mask_base64, image_base64) ==
  [taskType |-> "INPAINTING",
   text |-> prompt_content,
   mode |-> painting_mode,
   maskImage |-> mask_base64,
   image |-> image_base64]

\* the messages of the exceptions prepare_titan_request can raise
BuilderErrors == { <<"unsupported painting mode">> }

----------------------------------------------------------------------------
(* The external services *)

\* the messages of the exceptions bedrock.invoke_model can raise
BedrockErrors == { <<"ThrottlingException">>, <<"Read timeout on endpoint">> }

JNone == [t |-> "NoneType", s |-> <<>>, f |-> <<>>]
JImages(l) == [t |-> "list", s |-> <<>>, f |-> l]

\* what response_bedrock["body"].read() can hold: text that is not JSON, a
\* JSON value that is not an object, an object without "images", an object
\* with a list of images
BedrockOutputs ==
  { [json |-> FALSE, object |-> FALSE, images |-> JNone],
    [json |-> TRUE,  object |-> FALSE, images |-> JNone],
    [json |-> TRUE,  object |-> TRUE,  images |-> JNone],
    [json |-> TRUE,  object |-> TRUE,  images |-> JImages(<<>>)],
    [json |-> TRUE,  object |-> TRUE,  images |-> JImages(<<RawB64>>)],
    [json |-> TRUE,  object |-> TRUE,  images |-> JImages(<<RawB64, PaddedB64>>)] }

NoOutput == [json |-> FALSE, object |-> FALSE, images |-> Absent]

----------------------------------------------------------------------------
(* lambda_handler *)

ModelIdUnknown == <<"unknown">>
ModelIdTitan   == <<"amazon.titan-image-generator-v2:0">>
NoError        == <<>>

SupportedModels == { S_titan }

Resp(status, b) == [statusCode |-> status, headers |-> get_cors_headers, body |-> b]

NoResponse == [statusCode |-> 0, headers |-> get_cors_headers, body |-> [error |-> NoError]]

NoLoc ==
  [prompt_content |-> Absent, painting_mode |-> Absent,
   mask_base64 |-> <<>>, image_base64 |-> <<>>,
   model |-> <<>>, canvas_config |-> Absent,
   image_size |-> 0, mask_size |-> 0,
   request_body |-> Absent, hasModelId |-> FALSE, model_id |-> <<>>]

\* lines 44-81: the body of the event, or the response of an early return
ParseResult(ev) ==
  IF ev.t # "dict"
  THEN \* lines 75-81
       [returns |-> TRUE, body |-> Absent,
        response |-> Resp(400, [error |-> <<"Error parsing request body: ",
                       "'list' object has no attribute 'keys'">>])]
  ELSE IF "body" \notin ev.keys
  THEN \* lines 46-52
       [returns |-> TRUE, body |-> Absent,
        response |-> Resp(400, [error |-> <<"Missing body in request">>,
                                event_keys |-> ev.keys])]
  ELSE IF ev.body.t = "dict"
  THEN [returns |-> FALSE, body |-> ev.body.value, response |-> NoResponse]
  ELSE IF ev.body.t = "str"
  THEN IF ev.body.wellFormed
       THEN \* line 58
            [returns |-> FALSE, body |-> ev.body.value, response |-> NoResponse]
       ELSE \* lines 67-74
            [returns |-> TRUE, body |-> Absent,
             response |-> Resp(400, [error |-> <<"Invalid JSON in request body: ",
                            "Expecting value: line 1 column 1 (char 0)">>])]
  ELSE \* lines 59-65
       [returns |-> TRUE, body |-> Absent,
        response |-> Resp(400, [error |-> <<"Invalid body type: ",
                       "<class 'int'>">>])]

\* MissingFieldMsg with the field name left out of the message
MissingFieldMsgMut(k) == <<"Missing field">>

\* lines 92, 103 and 112: the error of a gate whose field is not in body
MissingFieldMsg(k) == <<"Missing \"", k, "\" field">>

\* the results of lines 84-136
ExtractReturn(gates, b) ==
  [returns |-> TRUE, gates |-> gates, response |-> Resp(400, b), loc |-> NoLoc]

ExtractOk(gates, l) ==
  [returns |-> FALSE, gates |-> gates, response |-> NoResponse, loc |-> l]

\* lines 116-122
KeyErrorResponse(k, b) ==
  [error |-> <<"Missing required field: '", k, "'">>,
   body_structure |-> DOMAIN b.f]

\* lines 130-136
ExceptionResponse(msg) ==
  [error |-> <<"Error extracting parameters: ", msg>>]

\* lines 84-136: the gates that ran, and the parameters or the response of
\* the return that ended them
ExtractResult(b) ==
  IF b.t # "dict"
  THEN \* line 85
       ExtractReturn(<<>>,
         ExceptionResponse("'list' object has no attribute 'keys'"))
  ELSE IF ~HasKey(b, "prompt")
  THEN \* lines 88-93
       ExtractReturn(<<"prompt">>,
         [error |-> MissingFieldMsg("prompt"),
          received_keys |-> DOMAIN b.f])
  ELSE IF b.f["prompt"].t # "dict"
  THEN \* line 95
       ExtractReturn(<<"prompt">>,
         ExceptionResponse("'int' object is not subscriptable"))
  ELSE IF ~HasKey(b.f["prompt"], "text")
  THEN \* line 95
       ExtractReturn(<<"prompt">>, KeyErrorResponse("text", b))
  ELSE IF ~HasKey(b.f["prompt"], "mode")
  THEN \* line 96
       ExtractReturn(<<"prompt">>, KeyErrorResponse("mode", b))
  ELSE IF ~HasKey(b, "mask")
  THEN \* lines 99-104
       ExtractReturn(<<"prompt", "mask">>,
         [error |-> MissingFieldMsg("mask")])
  ELSE IF b.f["mask"].t # "str"
  THEN \* line 105
       ExtractReturn(<<"prompt", "mask">>,
         ExceptionResponse("argument of type 'int' is not iterable"))
  ELSE IF ~HasKey(b, "base_image")
  THEN \* lines 108-113
       ExtractReturn(<<"prompt", "mask", "base_image">>,
         [error |-> MissingFieldMsg("base_image")])
  ELSE IF b.f["base_image"].t # "str"
  THEN \* line 114
       ExtractReturn(<<"prompt", "mask", "base_image">>,
         ExceptionResponse("argument of type 'int' is not iterable"))
  ELSE ExtractOk(<<"prompt", "mask", "base_image">>,
         [NoLoc EXCEPT !.prompt_content = b.f["prompt"].f["text"],
                       !.painting_mode = b.f["prompt"].f["mode"],
                       !.mask_base64 = StripDataUri(b.f["mask"].s),
                       !.image_base64 = StripDataUri(b.f["base_image"].s)])

\* ModelSupported without the membership test
ModelSupportedMut(m) == TRUE

\* line 147
ModelSupported(m) == m \in SupportedModels

\* line 148
UnsupportedModelMsg(m) ==
  <<"Unsupported model: ">> \o m \o <<". Supported models: titan">>

\* line 173
PrepareErrorMsg(m, e) ==
  <<"Error preparing request for ">> \o m \o <<": ">> \o e

\* ModelIdOrUnknown with model_id assigned ahead of the builder call
ModelIdOrUnknownMut(l) == ModelIdTitan

\* line 177
ModelIdOrUnknown(l) == IF l.hasModelId THEN l.model_id ELSE ModelIdUnknown

\* GenerationTime measured from the start of the invocation
GenerationTimeMut(t, bedrock_start, start) == t - start

\* line 207: the time the generation call took
GenerationTime(t, bedrock_start, start) == t - bedrock_start

\* lines 158, 183 and 243: the time since the invocation started
FailureTime(t, bedrock_start, start) == t - start

\* SuccessBody that reports the model id as model_used
SuccessBodyMut(images, l, rid, generation_time_ms) ==
  [images |-> images, model_used |-> l.model_id,
   request_id |-> rid, generation_time_ms |-> generation_time_ms]

\* lines 233-238
SuccessBody(images, l, rid, generation_time_ms) ==
  [images |-> images, model_used |-> l.model,
   request_id |-> rid, generation_time_ms |-> generation_time_ms]

\* LogArgs that leaves the error message out of the record
LogArgsMut(rid, model_id, l, output_size, generation_time_ms, success, error_message) ==
  [request_id |-> rid, model_id |-> model_id,
   prompt |-> l.prompt_content, mode |-> l.painting_mode,
   image_size |-> l.image_size, mask_size |-> l.mask_size,
   output_size |-> output_size, generation_time_ms |-> generation_time_ms,
   success |-> success, error_message |-> NoError]

\* the keyword arguments of one log_to_dynamodb call
LogArgs(rid, model_id, l, output_size, generation_time_ms, success, error_message) ==
  [request_id |-> rid, model_id |-> model_id,
   prompt |-> l.prompt_content, mode |-> l.painting_mode,
   image_size |-> l.image_size, mask_size |-> l.mask_size,
   output_size |-> output_size, generation_time_ms |-> generation_time_ms,
   success |-> success, error_message |-> error_message]

\* log_to_dynamodb(...): the call puts the record in the table, or the
\* table is unavailable, which it reports on stdout; it returns either way
log_to_dynamodb(log, args, stored) ==
  Append(log, [args |-> args, stored |-> stored])

----------------------------------------------------------------------------
(* The state machine *)

Init ==
  /\ pc = "idle"
  /\ event = NoEvent
  /\ request_id = 0
  /\ start_time = 0
  /\ now = 0
  /\ body = Absent
  /\ loc = NoLoc
  /\ bedrock_start_time = 0
  /\ response_bedrock = NoOutput
  /\ raised = NoError
  /\ response = NoResponse
  /\ audit = <<>>
  /\ stages = <<>>
  /\ builderCalls = <<>>
  /\ invokeCalls = <<>>
  /\ past = <<>>
  /\ field = <<>>
  /\ normalized = <<>>

\* FreshId that hands out the identifier of the previous invocation again
FreshIdMut(p) == IF p = <<>> THEN 1 ELSE p[Len(p)].request_id

\* line 37: uuid4 gives an identifier no earlier invocation had
FreshId(p) == Len(p) + 1

\* lines 25-38: the runtime calls lambda_handler(event, context) with one
\* of the events of E
InvokeFrom(E) ==
  /\ pc = "idle"
  /\ \E ev \in E : event' = ev
  /\ request_id' = FreshId(past)
  /\ start_time' = now
  /\ pc' = "parse"
  /\ UNCHANGED <<now, body, loc, bedrock_start_time, response_bedrock, raised,
                 response, audit, stages, builderCalls, invokeCalls, past, field, normalized>>

Invoke == InvokeFrom(Events)

\* lines 44-81
ParseBody ==
  /\ pc = "parse"
  /\ LET r == ParseResult(event)
     IN  /\ stages' = Append(stages, "body")
         /\ body' = r.body
         /\ IF r.returns
            THEN pc' = "done" /\ response' = r.response
            ELSE pc' = "extract" /\ UNCHANGED response
  /\ UNCHANGED <<event, request_id, start_time, now, loc, bedrock_start_time,
                 response_bedrock, raised, audit, builderCalls, invokeCalls,
                 past, field, normalized>>

\* lines 84-136
ExtractParams ==
  /\ pc = "extract"
  /\ LET r == ExtractResult(body)
     IN  /\ stages' = stages \o r.gates
         /\ loc' = r.loc
         /\ IF r.returns
            THEN pc' = "done" /\ response' = r.response
            ELSE pc' = "resolve" /\ UNCHANGED response
  /\ UNCHANGED <<event, request_id, start_time, now, body, bedrock_start_time,
                 response_bedrock, raised, audit, builderCalls, invokeCalls,
                 past, field, normalized>>

\* lines 138-144; str.lower() of line 139 raises AttributeError when the
\* model is not a str, and nothing catches it
ResolveModel ==
  /\ pc = "resolve"
  /\ IF HasKey(body, "model") /\ body.f["model"].t # "str"
     THEN /\ pc' = "raised"
          /\ raised' = <<"'int' object has no attribute 'lower'">>
          /\ UNCHANGED loc
     ELSE /\ pc' = "check_model"
          /\ loc' = [loc EXCEPT
               !.model = IF HasKey(body, "model")
                         THEN Lower(body.f["model"].s) ELSE Lower(S_titan),
               !.canvas_config = IF HasKey(body, "canvas_config")
                                 THEN body.f["canvas_config"] ELSE JDict(<<>>),
               !.image_size = calculate_base64_size(body.f["base_image"].s),
               !.mask_size = calculate_base64_size(body.f["mask"].s)]
          /\ UNCHANGED raised
  /\ UNCHANGED <<event, request_id, start_time, now, body, bedrock_start_time,
                 response_bedrock, response, audit, stages, builderCalls,
                 invokeCalls, past, field, normalized>>

\* lines 146-166
ValidateModel ==
  /\ pc = "check_model"
  /\ stages' = Append(stages, "model")
  /\ IF ~ModelSupported(loc.model)
     THEN LET error_msg == UnsupportedModelMsg(loc.model)
          IN  /\ \E stored \in BOOLEAN :
                   audit' = log_to_dynamodb(audit,
                              LogArgs(request_id, ModelIdUnknown, loc, 0,
                                      FailureTime(now, bedrock_start_time,
                                                  start_time),
                                      FALSE, error_msg),
                              stored)
              /\ response' = Resp(400, [error |-> error_msg])
              /\ pc' = "done"
     ELSE /\ pc' = "prepare"
          /\ UNCHANGED <<audit, response>>
  /\ UNCHANGED <<event, request_id, start_time, now, body, loc,
                 bedrock_start_time, response_bedrock, raised, builderCalls,
                 invokeCalls, past, field, normalized>>

\* lines 168-191; the call takes d milliseconds
PrepareRequest ==
  /\ pc = "prepare"
  /\ stages' = Append(stages, "builder")
  /\ builderCalls' = Append(builderCalls,
       [prompt_content |-> loc.prompt_content,
        painting_mode |-> loc.painting_mode,
        mask_base64 |-> loc.mask_base64,
        image_base64 |-> loc.image_base64])
  /\ \E d \in 0..MaxDelay :
       /\ now' = now + d
       /\ \/ /\ loc' = [loc EXCEPT
                  !.request_body = prepare_titan_request(loc.prompt_content,
                      loc.painting_mode, loc.mask_base64, loc.image_base64),
                  !.hasModelId = TRUE,
                  !.model_id = ModelIdTitan]
             /\ pc' = "invoke"
             /\ UNCHANGED <<audit, response>>
          \/ \E e \in BuilderErrors :
               LET error_msg == PrepareErrorMsg(loc.model, e)
               IN  /\ \E stored \in BOOLEAN :
                        audit' = log_to_dynamodb(audit,
                                   LogArgs(request_id, ModelIdOrUnknown(loc),
                                           loc, 0,
                                           FailureTime(now', bedrock_start_time,
                                                       start_time),
                                           FALSE, error_msg),
                                   stored)
                   /\ response' = Resp(400, [error |-> error_msg])
                   /\ pc' = "done"
                   /\ UNCHANGED loc
  /\ UNCHANGED <<event, request_id, start_time, body, bedrock_start_time,
                 response_bedrock, raised, invokeCalls, past, field, normalized>>

\* lines 194-204; the call takes d milliseconds and returns or raises
InvokeBedrock ==
  /\ pc = "invoke"
  /\ stages' = Append(stages, "generate")
  /\ bedrock_start_time' = now
  /\ invokeCalls' = Append(invokeCalls,
       [body |-> loc.request_body, modelId |-> loc.model_id])
  /\ \E d \in 0..MaxDelay :
       /\ now' = now + d
       /\ \/ \E out \in BedrockOutputs :
               /\ response_bedrock' = out
               /\ pc' = "output"
               /\ UNCHANGED raised
          \/ \E e \in BedrockErrors :
               /\ raised' = e
               /\ pc' = "except"
               /\ UNCHANGED response_bedrock
  /\ UNCHANGED <<event, request_id, start_time, body, loc, response, audit,
                 builderCalls, past, field, normalized>>

\* ReadOutput with a log_to_dynamodb that raises when the table is
\* unavailable: the except clause of line 241 takes over
ReadOutputLogRaises ==
  /\ pc = "output"
  /\ IF ~response_bedrock.json
     THEN /\ raised' = <<"Expecting value: line 1 column 1 (char 0)">>
          /\ pc' = "except"
          /\ UNCHANGED <<audit, response>>
     ELSE IF ~response_bedrock.object
     THEN /\ raised' = <<"'list' object has no attribute 'get'">>
          /\ pc' = "except"
          /\ UNCHANGED <<audit, response>>
     ELSE LET generation_time_ms ==
                GenerationTime(now, bedrock_start_time, start_time)
              images == response_bedrock.images
              output_size == calculate_output_images_size(images)
          IN  \E stored \in BOOLEAN :
                /\ audit' = log_to_dynamodb(audit,
                              LogArgs(request_id, loc.model_id, loc,
                                      output_size, generation_time_ms, TRUE,
                                      NoError),
                              stored)
                /\ IF stored
                   THEN /\ response' = Resp(200,
                             [images |-> images, model_used |-> loc.model,
                              request_id |-> request_id,
                              generation_time_ms |-> generation_time_ms])
                        /\ pc' = "done"
                        /\ UNCHANGED raised
                   ELSE /\ raised' = <<"Requested resource not found">>
                        /\ pc' = "except"
                        /\ UNCHANGED response
  /\ UNCHANGED <<event, request_id, start_time, now, body, loc,
                 bedrock_start_time, response_bedrock, stages, builderCalls,
                 invokeCalls, past, field, normalized>>

\* lines 206-239
ReadOutput ==
  /\ pc = "output"
  /\ IF ~response_bedrock.json
     THEN \* json.loads of line 210 raises
          /\ raised' = <<"Expecting value: line 1 column 1 (char 0)">>
          /\ pc' = "except"
          /\ UNCHANGED <<audit, response>>
     ELSE IF ~response_bedrock.object
     THEN \* .get of line 211 raises
          /\ raised' = <<"'list' object has no attribute 'get'">>
          /\ pc' = "except"
          /\ UNCHANGED <<audit, response>>
     ELSE LET generation_time_ms ==
                GenerationTime(now, bedrock_start_time, start_time)
              images == response_bedrock.images
              output_size == calculate_output_images_size(images)
          IN  /\ \E stored \in BOOLEAN :
                   audit' = log_to_dynamodb(audit,
                              LogArgs(request_id, loc.model_id, loc,
                                      output_size, generation_time_ms, TRUE,
                                      NoError),
                              stored)
              /\ response' = Resp(200,
                   SuccessBody(images, loc, request_id, generation_time_ms))
              /\ pc' = "done"
              /\ UNCHANGED raised
  /\ UNCHANGED <<event, request_id, start_time, now, body, loc,
                 bedrock_start_time, response_bedrock, stages, builderCalls,
                 invokeCalls, past, field, normalized>>

\* lines 241-268
HandleFailure ==
  /\ pc = "except"
  /\ LET error_message == raised
         generation_time_ms ==
           FailureTime(now, bedrock_start_time, start_time)
     IN  /\ \E stored \in BOOLEAN :
              audit' = log_to_dynamodb(audit,
                         LogArgs(request_id, loc.model_id, loc, 0,
                                 generation_time_ms, FALSE, error_message),
                         stored)
         /\ response' = Resp(500,
              [error |-> error_message, model_attempted |-> loc.model,
               request_id |-> request_id])
         /\ pc' = "done"
  /\ UNCHANGED <<event, request_id, start_time, now, body, loc,
                 bedrock_start_time, response_bedrock, raised, stages,
                 builderCalls, invokeCalls, past, field, normalized>>

Next ==
  \/ Invoke
  \/ ParseBody
  \/ ExtractParams
  \/ ResolveModel
  \/ ValidateModel
  \/ PrepareRequest
  \/ InvokeBedrock
  \/ ReadOutput
  \/ HandleFailure

Spec == Init /\ [][Next]_vars

----------------------------------------------------------------------------
(* Vocabulary of the properties *)

\* the handler has returned a response / has let an exception escape
Returned == pc = "done"
Escaped  == pc = "raised"

\* the log_to_dynamodb calls of the running invocation
MyRecords == SelectSeq(audit, LAMBDA r : r.args.request_id = request_id)

IsPrefix(s, t) == Len(s) <= Len(t) /\ SubSeq(t, 1, Len(s)) = s

Mentions(msg, k) == \E i \in 1..Len(msg) : msg[i] = k

GateOrder ==
  <<"body", "prompt", "mask", "base_image", "model", "builder", "generate">>

\* the required fields, in the order in which the gates look at them
FieldOrder == <<"prompt", "text", "mode", "mask", "base_image">>

PromptIsDict(b) == HasKey(b, "prompt") /\ b.f["prompt"].t = "dict"

FieldPresent(b, k) ==
  IF k \in {"text", "mode"}
  THEN PromptIsDict(b) /\ HasKey(b.f["prompt"], k)
  ELSE HasKey(b, k)

\* a field that is there but has a type its gate cannot work with
FieldIllTyped(b, k) ==
  CASE k = "prompt" -> HasKey(b, k) /\ b.f[k].t # "dict"
    [] k \in {"mask", "base_image"} -> HasKey(b, k) /\ b.f[k].t # "str"
    [] OTHER -> FALSE

\* the position in FieldOrder of the first field that b does not hold
FirstMissingIndex(b) ==
  CHOOSE i \in 1..Len(FieldOrder) :
    /\ ~FieldPresent(b, FieldOrder[i])
    /\ \A j \in 1..(i - 1) : FieldPresent(b, FieldOrder[j])

\* b is an object that lacks prompt, mask or base_image
LacksRequiredField(b) ==
  /\ b.t = "dict"
  /\ \E k \in {"prompt", "mask", "base_image"} : ~HasKey(b, k)

\* every field ahead of the first missing one has a usable type
EarlierFieldsUsable(b) ==
  \A j \in 1..(FirstMissingIndex(b) - 1) : ~FieldIllTyped(b, FieldOrder[j])

\* the gate that stops b
FailingGate(b) ==
  IF ~(FieldPresent(b, "prompt") /\ FieldPresent(b, "text")
        /\ FieldPresent(b, "mode"))
  THEN 2
  ELSE IF ~HasKey(b, "mask") \/ FieldIllTyped(b, "mask") THEN 3
  ELSE 4

\* b holds the four required fields with usable types
RequiredFieldsValid(b) ==
  /\ b.t = "dict"
  /\ \A i \in 1..Len(FieldOrder) : FieldPresent(b, FieldOrder[i])
  /\ b.f["mask"].t = "str"
  /\ b.f["base_image"].t = "str"

\* the generation call was made and raised, or what it returned is not an
\* object with a list of images
GenerationFailed ==
  /\ invokeCalls # <<>>
  /\ \/ pc = "except" \/ raised # NoError
     \/ /\ response_bedrock # NoOutput
        /\ ~(response_bedrock.json /\ response_bedrock.object
              /\ response_bedrock.images.t = "list")

----------------------------------------------------------------------------
(* C1 *)

\* C1: every invocation that has returned has made exactly one
\* log_to_dynamodb call, whatever the event and the outcome.
C1_ExactlyOneRecord ==
  Returned => Len(MyRecords) = 1

----------------------------------------------------------------------------
(* C2 *)

----------------------------------------------------------------------------
(* C3 *)

\* C3: no exception escapes lambda_handler: an invocation never ends
\* without a response.
C3_NoExceptionEscapes ==
  ~Escaped

----------------------------------------------------------------------------
(* C4 *)

\* C4: 400 exactly when the handler stops before the generation call, 500
\* exactly when the call was made and failed, 200 exactly when it
\* succeeded, and no other outcome.
C4_StatusClassifiesStage ==
  (Returned \/ Escaped) =>
    /\ Returned
    /\ response.statusCode \in {200, 400, 500}
    /\ response.statusCode = 400 <=> invokeCalls = <<>>
    /\ response.statusCode = 500 <=> GenerationFailed
    /\ response.statusCode = 200 <=> (invokeCalls # <<>> /\ ~GenerationFailed)

----------------------------------------------------------------------------
(* C5 *)

----------------------------------------------------------------------------
(* C6 *)

\* the model of b, resolved as line 139 resolves it, is a supported one
ModelOfBodySupported(b) ==
  IF HasKey(b, "model")
  THEN b.f["model"].t = "str" /\ Lower(b.f["model"].s) \in SupportedModels
  ELSE TRUE

\* C6: the generation service is called at most once per invocation, only
\* after parsing, field validation, the model check and the builder have
\* all succeeded, and with the request the builder produced.
C6_GenerateOnceAfterBuilder ==
  /\ Len(invokeCalls) <= 1
  /\ invokeCalls # <<>> =>
       /\ RequiredFieldsValid(body)
       /\ ModelOfBodySupported(body)
       /\ stages = GateOrder
       /\ Len(builderCalls) = 1
       /\ loc.hasModelId
       /\ invokeCalls[1].body =
            prepare_titan_request(builderCalls[1].prompt_content,
                                  builderCalls[1].painting_mode,
                                  builderCalls[1].mask_base64,
                                  builderCalls[1].image_base64)
       /\ invokeCalls[1].modelId = ModelIdTitan

\* the generation call raised and the handler answered without a retry
C6_Witness ==
  /\ Returned
  /\ response.statusCode = 500
  /\ raised \in BedrockErrors
  /\ Len(invokeCalls) = 1

----------------------------------------------------------------------------
(* C7 *)

\* C7: every prepare_titan_request call gets a non-empty prompt text, mode,
\* mask and base image.
C7_BuilderArgsNonEmpty ==
  \A i \in 1..Len(builderCalls) :
    /\ builderCalls[i].prompt_content.t = "str"
    /\ builderCalls[i].prompt_content.s # <<>>
    /\ builderCalls[i].painting_mode.t = "str"
    /\ builderCalls[i].painting_mode.s # <<>>
    /\ builderCalls[i].mask_base64 # <<>>
    /\ builderCalls[i].image_base64 # <<>>

----------------------------------------------------------------------------
(* C8 *)

\* C8: an otherwise valid body whose model is outside {"titan"} (letter
\* case ignored) gets a 400 whose error contains the model as supplied, one
\* success=false record and no builder or generation call; a body without
\* model, or with "titan" in any letter case, goes on to the builder.
C8_UnsupportedModelRejected ==
  ((Returned \/ Escaped) /\ RequiredFieldsValid(body)) =>
    IF ModelOfBodySupported(body)
    THEN builderCalls # <<>> /\ loc.model = S_titan
    ELSE /\ Returned
         /\ response.statusCode = 400
         /\ IsSubstr(body.f["model"].s, response.body.error)
         /\ Len(MyRecords) = 1
         /\ ~MyRecords[1].args.success
         /\ builderCalls = <<>>
         /\ invokeCalls = <<>>

----------------------------------------------------------------------------
(* C9 *)

\* C9: when the generation call fails or returns malformed output, the
\* handler returns 500 with the failure message as error and makes one
\* success=false record with the resolved model id and output size 0.
C9_GenerationFailureIs500 ==
  (Returned /\ GenerationFailed) =>
    /\ response.statusCode = 500
    /\ response.body.error = raised
    /\ Len(MyRecords) = 1
    /\ ~MyRecords[1].args.success
    /\ MyRecords[1].args.model_id = ModelIdTitan
    /\ MyRecords[1].args.output_size = 0

----------------------------------------------------------------------------
(* C10 *)

\* C10: a record made before the generation call was attempted has model id
\* "unknown"; the resolved id is in a record only after the attempt.
C10_ResolvedIdOnlyAfterAttempt ==
  [][ Len(audit') = Len(audit) + 1 =>
        LET r == audit'[Len(audit')].args
        IN  r.model_id = IF invokeCalls' = <<>> THEN ModelIdUnknown
                         ELSE ModelIdTitan ]_vars

\* the builder failed and its record has model id "unknown"
C10_Witness ==
  /\ Returned
  /\ response.statusCode = 400
  /\ builderCalls # <<>>
  /\ invokeCalls = <<>>
  /\ Len(MyRecords) = 1
  /\ MyRecords[1].args.model_id = ModelIdUnknown

----------------------------------------------------------------------------
(* The normalization of lines 105 and 114 on its own *)

\* the longest field value handed to the normalization
MaxFieldLen == 4

FieldChars == {"p", ",", "A"}

FieldValues == UNION { [1..n -> FieldChars] : n \in 0..MaxFieldLen }

InitNormalize ==
  /\ pc = "idle"
  /\ event = NoEvent
  /\ request_id = 0
  /\ start_time = 0
  /\ now = 0
  /\ body = Absent
  /\ loc = NoLoc
  /\ bedrock_start_time = 0
  /\ response_bedrock = NoOutput
  /\ raised = NoError
  /\ response = NoResponse
  /\ audit = <<>>
  /\ stages = <<>>
  /\ builderCalls = <<>>
  /\ invokeCalls = <<>>
  /\ past = <<>>
  /\ field \in FieldValues
  /\ normalized = <<>>

\* line 105 (mask) or line 114 (base_image) applied to field
NormalizeField ==
  /\ normalized = <<>>
  /\ normalized' = <<StripDataUri(field)>>
  /\ UNCHANGED <<pc, event, request_id, start_time, now, body, loc,
                 bedrock_start_time, response_bedrock, raised, response,
                 audit, stages, builderCalls, invokeCalls, past, field>>

\* the same line applied to the value it produced (a client that sends a
\* normalized value back)
NormalizeAgain ==
  /\ Len(normalized) = 1
  /\ normalized' = Append(normalized, StripDataUri(normalized[1]))
  /\ UNCHANGED <<pc, event, request_id, start_time, now, body, loc,
                 bedrock_start_time, response_bedrock, raised, response,
                 audit, stages, builderCalls, invokeCalls, past, field>>

NextNormalize == NormalizeField \/ NormalizeAgain

SpecNormalize == InitNormalize /\ [][NextNormalize]_vars

----------------------------------------------------------------------------
(* The handler invoked again after an invocation has ended *)

\* the number of ended invocations after which the handler is invoked again
MaxEnded == 1

ValidPrompt == MkDict([text |-> TextCat, mode |-> ModeInpaint])

ReplayBody(m, mo) ==
  MkDict([prompt |-> ValidPrompt, mask |-> m, base_image |-> JStr(DataUri),
          model |-> mo, canvas_config |-> Absent])

\* a valid request, one with an unsupported model, one with a model that is
\* no string, one without mask, and an event without body
ReplayEvents ==
  { [t |-> "dict", keys |-> {"body"},
     body |-> [t |-> "dict", wellFormed |-> TRUE, value |-> b]] :
      b \in { ReplayBody(JStr(RawB64), Absent),
              ReplayBody(JStr(RawB64), JStr(S_DALLE)),
              ReplayBody(JStr(RawB64), JNum),
              ReplayBody(Absent, Absent) } } \cup
  { [t |-> "dict", keys |-> {"headers"}, body |-> NoBodyArg] }

InvokeReplay == InvokeFrom(ReplayEvents)

\* the return statements, or the exception that leaves the handler: the
\* locals of the invocation are gone, the table and the clock stay
HandlerExit ==
  /\ pc \in {"done", "raised"}
  /\ Len(past) < MaxEnded
  /\ past' = Append(past,
       [request_id |-> request_id, event |-> event, outcome |-> pc,
        response |-> response, raised |-> raised,
        response_bedrock |-> response_bedrock,
        builderCalls |-> builderCalls, invokeCalls |-> invokeCalls,
        builderOk |-> loc.hasModelId])
  /\ pc' = "idle"
  /\ event' = NoEvent
  /\ request_id' = 0
  /\ start_time' = 0
  /\ body' = Absent
  /\ loc' = NoLoc
  /\ bedrock_start_time' = 0
  /\ response_bedrock' = NoOutput
  /\ raised' = NoError
  /\ response' = NoResponse
  /\ stages' = <<>>
  /\ builderCalls' = <<>>
  /\ invokeCalls' = <<>>
  /\ UNCHANGED <<now, audit, field, normalized>>

NextReplay ==
  \/ InvokeReplay
  \/ ParseBody
  \/ ExtractParams
  \/ ResolveModel
  \/ ValidateModel
  \/ PrepareRequest
  \/ InvokeBedrock
  \/ ReadOutput
  \/ HandleFailure
  \/ HandlerExit

SpecReplay == Init /\ [][NextReplay]_vars

----------------------------------------------------------------------------
(* C11 *)

\* the generation call returned an object with a list of images
GenerationGaveImages ==
  /\ response_bedrock # NoOutput
  /\ response_bedrock.json
  /\ response_bedrock.object
  /\ response_bedrock.images.t = "list"

\* C11: when the generation service returns a list of images for a valid
\* body, the handler returns 200 with that list unchanged as images and
\* "titan" as model_used, and makes exactly one record, with success=true
\* and the size estimate of the list as output size.
C11_SuccessResponseAndRecord ==
  (Returned /\ GenerationGaveImages) =>
    /\ response.statusCode = 200
    /\ response.body.images = response_bedrock.images
    /\ response.body.model_used = S_titan
    /\ Len(MyRecords) = 1
    /\ MyRecords[1].args.success
    /\ MyRecords[1].args.output_size = SumSizes(response_bedrock.images.f)

\* two images came back and were returned
C11_Witness ==
  /\ Returned
  /\ GenerationGaveImages
  /\ Len(response_bedrock.images.f) = 2
  /\ response.statusCode = 200
  /\ MyRecords[1].args.output_size = 4

----------------------------------------------------------------------------
(* C12 *)

\* the whole text of s after its first comma, or s when it has no comma
AfterFirstComma(s) ==
  IF FindComma(s, 1) = 0 THEN s
  ELSE SubSeq(s, FindComma(s, 1) + 1, Len(s))

\* C12: the normalization of a field value gives the whole text after the
\* first comma, also when the value has two or more commas, and the value
\* itself when it has no comma.
C12_WholeTextAfterFirstComma ==
  normalized # <<>> => normalized[1] = AfterFirstComma(field)

----------------------------------------------------------------------------
(* C13 *)

\* C13: normalizing a normalized value changes nothing; a value without a
\* comma is returned as it is, and a data URI "<prefix>,<data>" gives the
\* same as the raw "<data>".
C13_NormalizationIdempotent ==
  /\ Len(normalized) = 2 => normalized[2] = normalized[1]
  /\ (normalized # <<>> /\ FindComma(field, 1) = 0) => normalized[1] = field
  /\ (normalized # <<>> /\ FindComma(field, 1) # 0
        /\ FindComma(AfterFirstComma(field), 1) = 0) =>
       normalized[1] = StripDataUri(AfterFirstComma(field))

\* a value with two commas has been normalized twice
C13_Witness ==
  /\ Len(normalized) = 2
  /\ FindComma(field, 1) # 0
  /\ FindComma(AfterFirstComma(field), 1) # 0
  /\ normalized[1] # <<>>

----------------------------------------------------------------------------
(* C14 *)

\* the log_to_dynamodb calls of the i-th ended invocation
RecordsOf(i) ==
  SelectSeq(audit, LAMBDA r : r.args.request_id = past[i].request_id)

\* the running invocation has ended, on the event of the first one and with
\* the same answers of the builder and of the generation service
RerunOfFirst ==
  /\ past # <<>>
  /\ Returned \/ Escaped
  /\ event = past[1].event
  /\ loc.hasModelId = past[1].builderOk
  /\ raised = past[1].raised
  /\ response_bedrock = past[1].response_bedrock

\* C14: two runs of the handler on the same event, with the same answers of
\* the builder and the generation service, give two records with different
\* request ids and the same success and sizes, and two responses with the
\* same status.
C14_RerunGivesTwinRecords ==
  RerunOfFirst =>
    /\ Len(RecordsOf(1)) = 1
    /\ Len(MyRecords) = 1
    /\ RecordsOf(1)[1].args.request_id # MyRecords[1].args.request_id
    /\ RecordsOf(1)[1].args.success = MyRecords[1].args.success
    /\ RecordsOf(1)[1].args.image_size = MyRecords[1].args.image_size
    /\ RecordsOf(1)[1].args.mask_size = MyRecords[1].args.mask_size
    /\ RecordsOf(1)[1].args.output_size = MyRecords[1].args.output_size
    /\ past[1].outcome = "done"
    /\ Returned
    /\ past[1].response.statusCode = response.statusCode

----------------------------------------------------------------------------
(* C15 *)

\* C15 as stated: after the generation call, on success and on failure, the
\* logged generation time is the time since just before the call, and the
\* 200 response reports the logged value.
C15_TimeSinceBeforeCall ==
  (Returned /\ invokeCalls # <<>>) =>
    /\ Len(MyRecords) = 1
    /\ MyRecords[1].args.generation_time_ms = now - bedrock_start_time
    /\ response.statusCode = 200 =>
         response.body.generation_time_ms
           = MyRecords[1].args.generation_time_ms

\* C15 as amended: when the generation call succeeds, the logged generation
\* time is the time since just before the call and the response reports the
\* same value; when it fails, the logged time is the time since the start
\* of the invocation.
C15_TimeBySuccess ==
  (Returned /\ invokeCalls # <<>>) =>
    /\ Len(MyRecords) = 1
    /\ IF MyRecords[1].args.success
       THEN /\ response.statusCode = 200
            /\ MyRecords[1].args.generation_time_ms = now - bedrock_start_time
            /\ response.body.generation_time_ms
                 = MyRecords[1].args.generation_time_ms
       ELSE /\ response.statusCode = 500
            /\ MyRecords[1].args.generation_time_ms = now - start_time

\* the builder took time, then the generation call failed
C15_Witness ==
  /\ Returned
  /\ response.statusCode = 500
  /\ bedrock_start_time > start_time
  /\ now > bedrock_start_time
  /\ MyRecords[1].args.generation_time_ms = now - start_time

----------------------------------------------------------------------------
(* C16 *)

\* C16: a success=false record has output size 0 and the error string of
\* the response of its invocation, and a 200 response goes with a
\* success=true record.
C16_RecordAgreesWithResponse ==
  /\ \A i \in 1..Len(MyRecords) :
       ~MyRecords[i].args.success =>
         /\ MyRecords[i].args.output_size = 0
         /\ Returned
         /\ response.statusCode \in {400, 500}
         /\ MyRecords[i].args.error_message = response.body.error
  /\ (Returned /\ response.statusCode = 200) =>
       /\ Len(MyRecords) = 1
       /\ MyRecords[1].args.success

\* an unsupported model was turned down and logged
C16_Witness ==
  /\ Returned
  /\ response.statusCode = 400
  /\ Len(MyRecords) = 1
  /\ ~MyRecords[1].args.success
  /\ MyRecords[1].args.error_message = UnsupportedModelMsg(S_dalle)

----------------------------------------------------------------------------
(* C17 *)

\* C17: every prepare_titan_request call gets the canvas_config of the
\* body, or the empty mapping when the body has none.
C17_CanvasConfigReachesBuilder ==
  \A i \in 1..Len(builderCalls) :
    /\ "canvas_config" \in DOMAIN builderCalls[i]
    /\ builderCalls[i].canvas_config
         = IF HasKey(body, "canvas_config") THEN body.f["canvas_config"]
           ELSE JDict(<<>>)

----------------------------------------------------------------------------
(* C18 *)

\* C18: the request id is chosen when the invocation starts, differs from
\* the id of every earlier invocation, does not change while the invocation
\* runs, and is the id of every record the invocation makes and of its 200
\* or 500 response.
C18_OneRequestIdPerInvocation ==
  [][ /\ (pc = "idle" /\ pc' # "idle") =>
           /\ \A i \in 1..Len(past) : past[i].request_id # request_id'
           /\ \A i \in 1..Len(audit) : audit[i].args.request_id # request_id'
      /\ (pc \notin {"idle", "done", "raised"}) => request_id' = request_id
      /\ Len(audit') = Len(audit) + 1 =>
           audit'[Len(audit')].args.request_id = request_id'
      /\ (pc # "done" /\ pc' = "done"
            /\ response'.statusCode \in {200, 500}) =>
           response'.body.request_id = request_id' ]_vars

\* two invocations have each made a record and returned 200 or 500
C18_Witness ==
  /\ past # <<>>
  /\ past[1].response.statusCode \in {200, 500}
  /\ Returned
  /\ response.statusCode \in {200, 500}
  /\ Len(audit) = 2
  /\ audit[1].args.request_id = past[1].request_id
  /\ audit[2].args.request_id = request_id
  /\ response.body.request_id # past[1].response.body.request_id

====
